---------------------------- MODULE Spec2Model ----------------------------
(***************************************************************************)
(* Model of the baselinks plugin (src/main.ts, the class that starts at    *)
(* line 356): the debounced scheduleUpdate, the reconciliation routine     *)
(* updateBaselinks with its suspension at every `await leaf.openFile`,     *)
(* clearManagedLeaves and onunload, together with the host workspace the   *)
(* plugin runs in (panes, focus, active document, metadata cache, timers). *)
(*                                                                         *)
(* JavaScript strings are sequences of one-character strings, so that the  *)
(* link regular expression and String.split are computed, not assumed.     *)
(***************************************************************************)
EXTENDS Integers, Sequences, FiniteSets, TLC

(***************************************************************************)
(* Bounds of the model (not program constants).                            *)
(***************************************************************************)
\* The burst counter (a history variable) saturates at this value.
MaxBurst == 2
\* Number of saveData calls of the settings panel that may be pending at once.
MaxSaves == 1
\* Longest interior of the links the parsing is applied to on its own.
MaxInterior == 4
\* Longest sequence the frontmatter reading is applied to on its own.
MaxElems == 3

NoLeaf == 0                     \* null, for a WorkspaceLeaf | null
NoTimer == 0                    \* null, for updateTimeout
NoFile == "null"                \* null, for getActiveFile()
\* The panes the user has open in the main area when the plugin loads; the
\* panes the plugin creates get the identities above them.
UserLeaves == {1, 2}
FirstNewLeaf == Cardinality(UserLeaves) + 1

Range(s) == {s[i] : i \in 1..Len(s)}

(***************************************************************************)
(* Strings.                                                                *)
(***************************************************************************)
LinkAV  == <<"[", "[", "a", "#", "v", "]", "]">>       \* "[[a#v]]"
LinkB   == <<"[", "[", "b", "]", "]">>                 \* "[[b]]"
LinkM   == <<"[", "[", "m", "]", "]">>                 \* "[[m]]", no such document
LinkBad == <<"[", "a", "#", "v", "]">>                 \* "[a#v]", not a link

\* The documents getFirstLinkpathDest can resolve.
Vault == {<<"a">>, <<"b">>}

\* Index of the first occurrence of the character c in s at or after
\* position i, or 0 when there is none.
RECURSIVE IndexFrom(_, _, _)
IndexFrom(s, i, c) ==
    IF i > Len(s) THEN 0
    ELSE IF s[i] = c THEN i
    ELSE IndexFrom(s, i + 1, c)

\* Whether /\[\[([^\]]+)\]\]/ matches with its first "[" at position p:
\* "[[", then one or more characters other than "]" (the greedy run can only
\* end at the first "]"), then "]]".
MatchAt(s, p) ==
    /\ p + 1 <= Len(s)
    /\ s[p] = "[" /\ s[p + 1] = "["
    /\ LET q == IndexFrom(s, p + 2, "]")
       IN  /\ q > p + 2
           /\ q + 1 <= Len(s)
           /\ s[q + 1] = "]"

\* link.match(/\[\[([^\]]+)\]\]/): the position of the leftmost match, 0 for
\* null.
RECURSIVE MatchFrom(_, _)
MatchFrom(s, p) ==
    IF p > Len(s) THEN 0
    ELSE IF MatchAt(s, p) THEN p
    ELSE MatchFrom(s, p + 1)

linkMatch(link) == MatchFrom(link, 1)

\* linkMatch[1]: the captured interior of a matching link.
linkPath(link) ==
    LET p == linkMatch(link)
        q == IndexFrom(link, p + 2, "]")
    IN  SubSeq(link, p + 2, q - 1)

\* String.prototype.split('#'): the sequence of the segments between the
\* separators.
RECURSIVE Split(_)
Split(s) ==
    LET k == IndexFrom(s, 1, "#")
    IN  IF k = 0 THEN <<s>>
        ELSE <<SubSeq(s, 1, k - 1)>> \o Split(SubSeq(s, k + 1, Len(s)))

\* const [filePath, subpath] = linkPath.split('#')
filePath(link) == Split(linkPath(link))[1]

\* subpath is undefined when there is one segment only; undefined and ""
\* are both falsy at `if (subpath)`.
HasSubpath(link) ==
    LET segs == Split(linkPath(link))
    IN  Len(segs) >= 2 /\ segs[2] # <<>>

subpath(link) == IF HasSubpath(link) THEN Split(linkPath(link))[2] ELSE <<>>

\* getFirstLinkpathDest(filePath, '') returns a file.
Resolves(link) == filePath(link) \in Vault

(***************************************************************************)
(* Frontmatter values and settings.                                        *)
(***************************************************************************)
Undefined == [kind |-> "undefined", s |-> <<>>, n |-> 0, elems |-> <<>>]
Str(s)    == [kind |-> "string", s |-> s, n |-> 0, elems |-> <<>>]
Num(n)    == [kind |-> "number", s |-> <<>>, n |-> n, elems |-> <<>>]
Arr(e)    == [kind |-> "array", s |-> <<>>, n |-> 0, elems |-> e]
Obj       == [kind |-> "object", s |-> <<>>, n |-> 0, elems |-> <<>>]

\* JavaScript truthiness of a frontmatter value (arrays are always truthy).
Truthy(v) ==
    CASE v.kind = "undefined" -> FALSE
      [] v.kind = "string"    -> v.s # <<>>
      [] v.kind = "number"    -> v.n # 0
      [] OTHER                -> TRUE

PropNames == {"baselinks", "views"}

\* A parsed frontmatter: has = FALSE when the document has none.
NoFrontmatter == [has |-> FALSE, props |-> [p \in PropNames |-> Undefined]]
FM(b, v) == [has |-> TRUE, props |-> [p \in PropNames |->
                 IF p = "baselinks" THEN b ELSE IF p = "views" THEN v ELSE Undefined]]

\* The frontmatters the note takes in this model: none, two valid links,
\* an unresolved link first, and a list with a non-string, a malformed link
\* in the middle and an unresolved link last.
Frontmatters ==
    { NoFrontmatter,
      FM(Arr(<<Str(LinkAV), Str(LinkB)>>), Undefined),
      FM(Arr(<<Str(LinkM), Str(LinkAV)>>), Undefined),
      FM(Arr(<<Str(LinkAV), Num(7), Str(LinkBad), Str(LinkB), Str(LinkM)>>),
         Str(LinkB)) }

\* The default lists the settings panel stores.
DefaultLists == { <<>>, <<LinkB>> }

\* Mutant: no element is dropped.
FilterStringsAll(e) == [i \in 1..Len(e) |-> e[i].s]

\* propertyValue.filter(v => typeof v === 'string') (line 576).
RECURSIVE FilterStrings(_)
FilterStrings(e) ==
    IF e = <<>> THEN <<>>
    ELSE (IF Head(e).kind = "string" THEN <<Head(e).s>> ELSE <<>>)
            \o FilterStrings(Tail(e))

\* getBaselinksFromFile, given the file's cached frontmatter and the
\* configured property name.
getBaselinksFromFile(fm, name) ==
    IF ~fm.has THEN <<>>
    ELSE LET propertyValue == fm.props[name]
         IN  IF ~Truthy(propertyValue) THEN <<>>
             ELSE IF propertyValue.kind = "array"
                  THEN FilterStrings(propertyValue.elems)
             ELSE IF propertyValue.kind = "string" THEN <<propertyValue.s>>
             ELSE <<>>

\* Mutant: the lists are compared as objects, and a new list is never the
\* stored one.
arraysEqualByReference(a, b) == FALSE

\* arraysEqual (lines 554-560).
arraysEqual(a, b) ==
    IF Len(a) # Len(b) THEN FALSE
    ELSE \A i \in 1..Len(a) : a[i] = b[i]

(***************************************************************************)
(* State.                                                                  *)
(***************************************************************************)
VARIABLES
    loaded,            \* the plugin's event handlers are registered
    layoutReady,       \* the onLayoutReady callback has run
    settings,          \* this.settings
    saving,            \* saveData calls of saveSettings still pending
    managedLeaves,     \* this.managedLeaves
    updateTimeout,     \* this.updateTimeout: a timer handle, or NoTimer
    isUpdating,        \* this.isUpdating
    currentBaselinks,  \* this.currentBaselinks
    timers,            \* host: handles of the timers that are pending
    passes,            \* updateBaselinks calls suspended at `await openFile`
    attached,          \* host: the panes that are in the pane tree
    activeLeaf,        \* host: workspace.activeLeaf
    activeFile,        \* host: workspace.getActiveFile()
    frontmatter,       \* host: cached frontmatter of the note
    echo,              \* host: events caused by the plugin's own pane changes
    watch,             \* which history variable this behaviour maintains
    last,              \* history: the plugin call of the last step
    burst,             \* history: notifications accepted since a timer expired
    inputs,            \* history: the inputs since a pass last read them
    lastRendered,      \* history: the list of the last pass that succeeded
    input,             \* the argument of a function applied on its own
    output             \* and what the function returned

vars == <<loaded, layoutReady, settings, saving, managedLeaves, updateTimeout,
          isUpdating, currentBaselinks, timers, passes, attached, activeLeaf,
          activeFile, frontmatter, echo, watch, last, burst, inputs, lastRendered,
          input, output>>

Files == {"note"}

\* The record `last`: the caller ("timer", "layoutReady", "openFile" for a
\* resumed pass, "onunload"; "notify" for a notification, "close" and
\* "onunload" for the notification of a detached pane) and how the call
\* ended.
Did(op, outcome) == [op |-> op, outcome |-> outcome, detached |-> 0]

\* The same for a call that detached n panes of the pane tree.
DidDetach(op, outcome, n) == [op |-> op, outcome |-> outcome, detached |-> n]

\* The record `last` of every other step.
Quiet == Did("", "")

\* The history variables observe the plugin and never steer it. A behaviour
\* maintains one of them, named by `watch`, and leaves the others at their
\* initial values.
Observe(call, notification) ==
    /\ last' = CASE watch = "calls"  -> call
                 [] watch = "notify" -> notification
                 [] OTHER            -> Quiet
    /\ lastRendered' = IF watch = "snapshot"
                           /\ call.outcome \in {"completed", "empty"}
                        THEN currentBaselinks'
                        ELSE lastRendered
Called(op, outcome) == Observe(Did(op, outcome), Quiet)
Notified(op, outcome) == Observe(Quiet, Did(op, outcome))
Burst(n) == burst' = IF watch = "burst" THEN n ELSE burst
\* inputs is "changed" when the active document, its frontmatter or the
\* settings changed since a pass last read them (or none has), "read" when
\* a pass read them and none changed since, and "reread" when further passes
\* read them with no change in between.
Inputs(v) == inputs' = IF watch = "inputs" THEN v ELSE inputs

\* The argument of getBaselinksFromFile (a document's cached frontmatter)
\* or of the link parsing of the loop (an entry of the list), and the result:
\* the list returned, or what the loop passes on to the host for the entry.
Input(fn, fm, link) == [fn |-> fn, fm |-> fm, link |-> link]
Output(list, matched, path, hasView, viewName) ==
    [done |-> TRUE, list |-> list, matched |-> matched, filePath |-> path,
     hasView |-> hasView, viewName |-> viewName]
NoInput == Input("", NoFrontmatter, <<>>)
NoOutput == [done |-> FALSE, list |-> <<>>, matched |-> FALSE,
             filePath |-> <<>>, hasView |-> FALSE, viewName |-> <<>>]

\* The host fires active-leaf-change (and the like) when the plugin opens a
\* document in a pane, reveals or detaches a pane or moves the focus. echo
\* is "sync" in a host that calls the handlers before the plugin's call
\* returns, where scheduleUpdate drops them because isUpdating is set; in a
\* host that calls them later it is "pending" while such events wait,
\* "delivered" once they have been handed to scheduleUpdate, and "none"
\* before any.
Echo(mutated) ==
    echo' = IF echo # "sync" /\ mutated THEN "pending" ELSE echo

InitPlugin ==
    /\ loaded = TRUE
    /\ layoutReady = FALSE
    /\ settings \in [baselinkPropertyName : {"baselinks"},
                     defaultBaselinks : DefaultLists]
    /\ saving = 0
    /\ managedLeaves = <<>>
    /\ updateTimeout = NoTimer
    /\ isUpdating = FALSE
    /\ currentBaselinks = <<>>
    /\ timers = {}
    /\ passes = <<>>
    /\ attached = UserLeaves
    /\ activeLeaf \in UserLeaves \cup {NoLeaf}
    /\ activeFile \in Files \cup {NoFile}
    /\ frontmatter \in Frontmatters
    /\ last = Quiet
    /\ burst = 0
    /\ inputs = "changed"
    /\ lastRendered = <<>>
    /\ input = NoInput
    /\ output = NoOutput

Init == InitPlugin /\ echo = "sync" /\ watch = "calls"
InitNotify == InitPlugin /\ echo = "sync" /\ watch = "notify"
InitBurst == InitPlugin /\ echo = "sync" /\ watch = "burst"
InitInputs == InitPlugin /\ echo = "sync" /\ watch = "inputs"
InitSnapshot == InitPlugin /\ echo = "sync" /\ watch = "snapshot"

(***************************************************************************)
(* Host facilities.                                                        *)
(***************************************************************************)
\* setTimeout: a handle that is not among the pending ones.
NewTimer(pending) ==
    CHOOSE h \in 1..(Cardinality(pending) + 1) : h \notin pending

\* The panes a suspended pass refers to.
LeavesOf(p) == {p.originalActiveLeaf, p.previousLeaf}
                  \cup {p.log[j].leaf : j \in 1..Len(p.log)}

\* A new pane: the identity of a pane nothing refers to any more is reused.
NewLeaf(used) ==
    CHOOSE l \in FirstNewLeaf..(FirstNewLeaf + Cardinality(used)) :
        /\ l \notin used
        /\ \A j \in FirstNewLeaf..(l - 1) : j \in used

\* workspace.getRightLeaf(false): a new pane of the sidebar, or null.
getRightLeaf(used) == {NoLeaf, NewLeaf(used)}

\* workspace.createLeafBySplit(parent, 'horizontal'): a new pane.
createLeafBySplit(used) == {NewLeaf(used)}

\* Mutant: no pane is found to have a parent.
HasParentNever(leaf, tree) == FALSE

\* leaf.parent is null once the pane has left the pane tree.
HasParent(leaf, tree) == leaf \in tree

\* The pane the host focuses when the focused pane `gone` is detached and
\* `tree` is what is left.
FocusAfterDetach(active, gone, tree) ==
    IF active \notin gone THEN {active}
    ELSE IF tree = {} THEN {NoLeaf}
    ELSE tree

\* workspace.revealLeaf(leaf): depending on the host version the pane is
\* only shown, or also focused.
revealLeaf(active, leaf, tree) ==
    IF leaf \in tree THEN {active, leaf} ELSE {active}

\* Mutant: the focus is left where it is.
setActiveLeafOmitted(active, leaf, tree) == {active}

\* workspace.setActiveLeaf(leaf, {focus: true}); what the host does with a
\* pane that has been detached is not defined.
setActiveLeaf(active, leaf, tree) ==
    IF leaf \in tree THEN {leaf} ELSE {leaf, active}


(***************************************************************************)
(* scheduleUpdate (lines 408-429).                                         *)
(***************************************************************************)
\* Mutant: the pending timer is not cleared before the new one is set.
scheduleUpdateNoClear(active, managed, updating, timeout, pending) ==
    IF (active # NoLeaf /\ active \in Range(managed)) \/ updating
    THEN [updateTimeout |-> timeout, timers |-> pending, started |-> FALSE]
    ELSE LET h == NewTimer(pending)
         IN  [updateTimeout |-> h, timers |-> pending \cup {h},
              started |-> TRUE]

\* Mutant: a notification is not dropped while a pass is in flight.
scheduleUpdateWhileUpdating(active, managed, updating, timeout, pending) ==
    IF active # NoLeaf /\ active \in Range(managed)
    THEN [updateTimeout |-> timeout, timers |-> pending, started |-> FALSE]
    ELSE LET cleared == IF timeout # NoTimer THEN pending \ {timeout}
                        ELSE pending
             h == NewTimer(cleared)
         IN  [updateTimeout |-> h, timers |-> cleared \cup {h},
              started |-> TRUE]

\* The timer state [updateTimeout, timers] scheduleUpdate leaves, called
\* with `active` focused, and whether it started a timer.
scheduleUpdate(active, managed, updating, timeout, pending) ==
    IF active # NoLeaf /\ active \in Range(managed)
    THEN [updateTimeout |-> timeout, timers |-> pending, started |-> FALSE]
    ELSE IF updating
    THEN [updateTimeout |-> timeout, timers |-> pending, started |-> FALSE]
    ELSE LET cleared == IF timeout # NoTimer THEN pending \ {timeout}
                        ELSE pending
             h == NewTimer(cleared)
         IN  [updateTimeout |-> h, timers |-> cleared \cup {h},
              started |-> TRUE]

\* A call of scheduleUpdate with `active` focused and `managed` the managed
\* set at that moment.
Notify(active, managed) ==
    LET r == scheduleUpdate(active, managed, isUpdating, updateTimeout, timers)
    IN  /\ updateTimeout' = r.updateTimeout
        /\ timers' = r.timers
        /\ Burst(IF r.started
                 THEN (IF burst < MaxBurst THEN burst + 1 ELSE MaxBurst)
                 ELSE burst)

\* Whether that call starts a timer.
Accepted(active, managed) ==
    IF scheduleUpdate(active, managed, isUpdating, updateTimeout, timers).started
    THEN "accepted" ELSE "ignored"

(***************************************************************************)
(* clearManagedLeaves (lines 431-436).                                     *)
(***************************************************************************)
\* Mutant: the set is emptied and its panes are left in the pane tree.
clearManagedLeavesKeepPanes(managed, tree, active) ==
    {[managedLeaves |-> <<>>, attached |-> tree, activeLeaf |-> active]}

\* Mutant: only the first pane of the set is detached.
clearManagedLeavesFirstOnly(managed, tree, active) ==
    LET gone == IF managed = <<>> THEN {} ELSE {managed[1]}
        left == tree \ gone
    IN  {[managedLeaves |-> <<>>, attached |-> left, activeLeaf |-> a] :
            a \in FocusAfterDetach(active, gone, left)}

\* Mutant: the panes are detached and the set still lists them.
clearManagedLeavesKeepList(managed, tree, active) ==
    LET gone == Range(managed)
        left == tree \ gone
    IN  {[managedLeaves |-> managed, attached |-> left, activeLeaf |-> a] :
            a \in FocusAfterDetach(active, gone, left)}

\* The outcomes [managedLeaves, attached, activeLeaf] of detaching every
\* managed pane and emptying the set.
clearManagedLeaves(managed, tree, active) ==
    LET gone == Range(managed)
        left == tree \ gone
    IN  {[managedLeaves |-> <<>>, attached |-> left, activeLeaf |-> a] :
            a \in FocusAfterDetach(active, gone, left)}

(***************************************************************************)
(* updateBaselinks (lines 438-552).                                        *)
(***************************************************************************)
\* The list of lines 450-461: from the active file, else the defaults.
Derived ==
    LET fromFile == IF activeFile # NoFile
                    THEN getBaselinksFromFile(frontmatter,
                                              settings.baselinkPropertyName)
                    ELSE <<>>
    IN  IF Len(fromFile) = 0 THEN settings.defaultBaselinks ELSE fromFile

\* Mutant: the guard always holds.
alreadyUpdatingAlways(flag) == TRUE

\* Mutant: the guard never holds.
alreadyUpdatingNever(flag) == FALSE

\* The guard of lines 440-442.
alreadyUpdating(flag) == flag

\* Mutant: the flag is cleared at the returns only, and an error leaves it.
finallyFlagOnReturn(outcome) == outcome \in {"threw", "openfail"}

\* The flag after the finally block of lines 549-551, whatever the way the
\* body was left.
finallyFlag(outcome) == FALSE

LogLeaves(log) == {log[j].leaf : j \in 1..Len(log)}

\* The loop of lines 482-543 from entry i (1-based) up to the next
\* `await leaf.openFile`, the end of the list or an error. s holds the
\* managed set, the pane tree, previousLeaf and what the pass did so far;
\* keep are the panes referred to from elsewhere. The result is the set of
\* possible outcomes [kind, i, s].
RECURSIVE Run(_, _, _, _)
Run(i, s, list, keep) ==
    IF i > Len(list) THEN {[kind |-> "end", i |-> i, s |-> s]}
    ELSE
    LET link == list[i] IN
    IF linkMatch(link) = 0 THEN Run(i + 1, s, list, keep)
    ELSE IF ~Resolves(link) THEN Run(i + 1, s, list, keep)
    ELSE IF i > 1 /\ s.previousLeaf = NoLeaf
    THEN {[kind |-> "throw", i |-> i, s |-> s]}   \* null.parent, line 510
    ELSE
    LET used == keep \cup s.attached \cup Range(s.managedLeaves)
                     \cup LogLeaves(s.log) \cup {s.previousLeaf}
        how == IF i = 1 THEN "sidebar"
               ELSE IF HasParent(s.previousLeaf, s.attached) THEN "split"
               ELSE "sidebar"
        got == IF how = "sidebar" THEN getRightLeaf(used)
               ELSE createLeafBySplit(used)
        Pushed(leaf) ==
            [s EXCEPT !.managedLeaves = Append(@, leaf),
                      !.attached = @ \cup {leaf},
                      !.previousLeaf = leaf,
                      !.log = Append(@, [idx |-> i, leaf |-> leaf, how |-> how,
                                         from |-> IF how = "split"
                                                  THEN s.previousLeaf ELSE NoLeaf,
                                         file |-> filePath(link),
                                         hasView |-> HasSubpath(link),
                                         viewName |-> subpath(link),
                                         opened |-> FALSE,
                                         revealed |-> FALSE])]
    IN  UNION { IF leaf = NoLeaf
                THEN Run(i + 1, [s EXCEPT !.nopane = @ \cup {i}], list, keep)
                ELSE {[kind |-> "await", i |-> i, s |-> Pushed(leaf)]}
                : leaf \in got }

\* What a pass does when the loop stopped with outcome r: it suspends at
\* openFile, or it restores the focus (lines 545-548) and ends, or it ends
\* with the error; the finally block runs on both ends.
Settle(op, r, flag, active, original, list, rest) ==
    /\ managedLeaves' = r.s.managedLeaves
    /\ attached' = r.s.attached
    /\ IF r.kind = "await"
       THEN /\ activeLeaf' = active
            /\ isUpdating' = flag
            /\ passes' = Append(rest, [baselinks |-> list, i |-> r.i,
                                       previousLeaf |-> r.s.previousLeaf,
                                       originalActiveLeaf |-> original,
                                       log |-> r.s.log, nopane |-> r.s.nopane])
            /\ Called("", "")
       ELSE /\ IF r.kind = "end" /\ original # NoLeaf
                  /\ original \notin Range(r.s.managedLeaves)
               THEN activeLeaf' \in setActiveLeaf(active, original, r.s.attached)
               ELSE activeLeaf' = active
            /\ isUpdating' = finallyFlag(IF r.kind = "end" THEN "completed"
                                         ELSE "threw")
            /\ passes' = rest
            /\ Called(op, IF r.kind = "end" THEN "completed" ELSE "threw")

\* A call of updateBaselinks up to its first suspension or its end.
updateBaselinks(op) ==
    IF alreadyUpdating(isUpdating)
    THEN /\ Called(op, "rejected")
         /\ Echo(FALSE)
         /\ UNCHANGED <<managedLeaves, isUpdating, currentBaselinks, passes,
                        attached, activeLeaf, inputs>>
    ELSE
    LET originalActiveLeaf == activeLeaf
        baselinks == Derived
    IN  /\ Inputs(IF inputs = "changed" THEN "read" ELSE "reread")
        /\ IF arraysEqual(currentBaselinks, baselinks)
           THEN /\ isUpdating' = finallyFlag("unchanged")
                /\ Echo(FALSE)
                /\ Called(op, "unchanged")
                /\ UNCHANGED <<managedLeaves, currentBaselinks, passes,
                               attached, activeLeaf>>
           ELSE /\ currentBaselinks' = baselinks
                /\ Echo(TRUE)
                /\ \E c \in clearManagedLeaves(managedLeaves, attached, activeLeaf) :
                     IF Len(baselinks) = 0
                     THEN /\ managedLeaves' = c.managedLeaves
                          /\ attached' = c.attached
                          /\ activeLeaf' = c.activeLeaf
                          /\ isUpdating' = finallyFlag("empty")
                          /\ passes' = passes
                          /\ Observe(DidDetach(op, "empty",
                                         Cardinality(attached \ c.attached)),
                                     Quiet)
                     ELSE \E r \in Run(1, [managedLeaves |-> c.managedLeaves,
                                           attached |-> c.attached,
                                           previousLeaf |-> NoLeaf,
                                           log |-> <<>>, nopane |-> {}],
                                       baselinks,
                                       {originalActiveLeaf, c.activeLeaf}
                                         \cup UNION {LeavesOf(passes[k]) :
                                                       k \in 1..Len(passes)}) :
                            Settle(op, r, TRUE, c.activeLeaf, originalActiveLeaf,
                                   baselinks, passes)

Without(seq, k) == SubSeq(seq, 1, k - 1) \o SubSeq(seq, k + 1, Len(seq))

MarkLast(log, field) ==
    IF field = "opened" THEN [log EXCEPT ![Len(log)].opened = TRUE]
    ELSE [log EXCEPT ![Len(log)].revealed = TRUE]

(***************************************************************************)
(* Actions of the plugin.                                                  *)
(***************************************************************************)
\* The callback of workspace.onLayoutReady (lines 398-400).
LayoutReady ==
    /\ ~layoutReady
    /\ layoutReady' = TRUE
    /\ updateBaselinks("layoutReady")
    /\ UNCHANGED <<input, output, watch,
                   loaded, settings, saving, updateTimeout, timers, activeFile,
                   frontmatter, burst>>

\* The timer callback of lines 425-428 for the pending timer h.
TimerFires(h) ==
    /\ h \in timers
    /\ timers' = timers \ {h}
    /\ updateTimeout' = NoTimer
    /\ Burst(0)
    /\ updateBaselinks("timer")
    /\ UNCHANGED <<input, output, watch,
                   loaded, layoutReady, settings, saving, activeFile,
                   frontmatter>>

\* `await leaf.openFile(file, openState)` of pass k resolves (line 537): the
\* pass reveals the first pane (lines 540-542) and goes on with the loop.
OpenFileResolves(k) ==
    /\ k \in 1..Len(passes)
    /\ Echo(TRUE)
    /\ UNCHANGED <<input, output, watch,
                   loaded, layoutReady, settings, saving, updateTimeout,
                   currentBaselinks, timers, activeFile, frontmatter, burst,
                   inputs>>
    /\ LET p == passes[k]
           rest == Without(passes, k)
           opened == MarkLast(p.log, "opened")
           log == IF p.i = 1 THEN MarkLast(opened, "revealed") ELSE opened
           focus == IF p.i = 1
                    THEN revealLeaf(activeLeaf, p.previousLeaf, attached)
                    ELSE {activeLeaf}
       IN  \E a \in focus :
             \E r \in Run(p.i + 1, [managedLeaves |-> managedLeaves,
                                    attached |-> attached,
                                    previousLeaf |-> p.previousLeaf,
                                    log |-> log, nopane |-> p.nopane],
                          p.baselinks,
                          {p.originalActiveLeaf, a}
                             \cup UNION {LeavesOf(rest[j]) : j \in 1..Len(rest)}) :
                Settle("openFile", r, isUpdating, a, p.originalActiveLeaf,
                       p.baselinks, rest)

\* `await leaf.openFile(file, openState)` of pass k rejects: the error leaves
\* updateBaselinks through the finally block.
OpenFileRejects(k) ==
    /\ k \in 1..Len(passes)
    /\ LET p == passes[k]
       IN  /\ passes' = Without(passes, k)
           /\ isUpdating' = finallyFlag("openfail")
           /\ Echo(TRUE)
           /\ Called("openFile", "openfail")
    /\ UNCHANGED <<input, output, watch,
                   loaded, layoutReady, settings, saving, managedLeaves,
                   updateTimeout, currentBaselinks, timers, attached,
                   activeLeaf, activeFile, frontmatter, burst, inputs>>

\* onunload (lines 403-406); the host fires active-leaf-change when the
\* focused pane is detached, and removes the handlers after onunload.
onunload ==
    /\ loaded
    /\ loaded' = FALSE
    /\ \E c \in clearManagedLeaves(managedLeaves, attached, activeLeaf) :
         /\ managedLeaves' = c.managedLeaves
         /\ attached' = c.attached
         /\ activeLeaf' = c.activeLeaf
         /\ IF c.activeLeaf # activeLeaf
            THEN /\ Notify(c.activeLeaf, managedLeaves)
                 /\ Observe(DidDetach("onunload", "",
                                      Cardinality(attached \ c.attached)),
                            Did("onunload",
                                Accepted(c.activeLeaf, managedLeaves)))
            ELSE /\ UNCHANGED <<updateTimeout, timers, burst>>
                 /\ Observe(DidDetach("onunload", "",
                                      Cardinality(attached \ c.attached)),
                            Quiet)
    /\ UNCHANGED <<input, output, watch, echo,
                   layoutReady, settings, saving, isUpdating, currentBaselinks,
                   passes, activeFile, frontmatter, inputs>>

\* saveSettings after `await this.saveData` (lines 589-593).
saveSettings ==
    /\ saving > 0
    /\ saving' = saving - 1
    /\ Notify(activeLeaf, managedLeaves)
    /\ Notified("notify", Accepted(activeLeaf, managedLeaves))
    /\ UNCHANGED <<input, output, watch, echo,
                   loaded, layoutReady, settings, managedLeaves, isUpdating,
                   currentBaselinks, passes, attached, activeLeaf, activeFile,
                   frontmatter, inputs>>

(***************************************************************************)
(* Actions of the user and the host. The handlers of their events are      *)
(* registered while the plugin is loaded (registerEvent removes them on    *)
(* unload); after onunload the model follows what the plugin still has     *)
(* pending: timers, suspended passes, saves and the layout-ready callback. *)
(***************************************************************************)
\* The user focuses pane l, which shows file f: active-leaf-change
\* (lines 382-386).
ActiveLeafChange(l, f) ==
    /\ loaded
    /\ l \in attached /\ l # activeLeaf
    /\ f \in Files \cup {NoFile}
    /\ activeLeaf' = l
    /\ activeFile' = f
    /\ Inputs(IF f # activeFile THEN "changed" ELSE inputs)
    /\ Notify(l, managedLeaves)
    /\ Notified("notify", Accepted(l, managedLeaves))
    /\ UNCHANGED <<input, output, watch, echo,
                   loaded, layoutReady, settings, saving, managedLeaves,
                   isUpdating, currentBaselinks, passes, attached, frontmatter>>

\* Another file is opened in the focused pane: file-open, whose handler
\* (lines 367-379) changes nothing.
FileOpen(f) ==
    /\ loaded
    /\ f \in Files \cup {NoFile} /\ f # activeFile
    /\ activeFile' = f
    /\ Inputs("changed")
    /\ Called("", "")
    /\ UNCHANGED <<input, output, watch, echo,
                   loaded, layoutReady, settings, saving, managedLeaves,
                   updateTimeout, isUpdating, currentBaselinks, timers, passes,
                   attached, activeLeaf, frontmatter, burst>>

\* The metadata cache reports a change (lines 388-392); v is the note's
\* frontmatter afterwards (the change may be to another document).
MetadataChanged(v) ==
    /\ loaded
    /\ v \in Frontmatters
    /\ frontmatter' = v
    /\ Inputs(IF v # frontmatter THEN "changed" ELSE inputs)
    /\ Notify(activeLeaf, managedLeaves)
    /\ Notified("notify", Accepted(activeLeaf, managedLeaves))
    /\ UNCHANGED <<input, output, watch, echo,
                   loaded, layoutReady, settings, saving, managedLeaves,
                   isUpdating, currentBaselinks, passes, attached, activeLeaf,
                   activeFile>>

\* The settings panel's text area changes (lines 628-634): the new list is
\* stored and saveSettings starts.
DefaultBaselinksEdited(d) ==
    /\ loaded
    /\ saving < MaxSaves
    /\ d \in DefaultLists /\ d # settings.defaultBaselinks
    /\ settings' = [settings EXCEPT !.defaultBaselinks = d]
    /\ saving' = saving + 1
    /\ Inputs("changed")
    /\ Called("", "")
    /\ UNCHANGED <<input, output, watch, echo,
                   loaded, layoutReady, managedLeaves, updateTimeout, isUpdating,
                   currentBaselinks, timers, passes, attached, activeLeaf,
                   activeFile, frontmatter, burst>>

\* The user closes pane l of the sidebar.
CloseLeaf(l) ==
    /\ loaded
    /\ l \in attached \ UserLeaves
    /\ attached' = attached \ {l}
    /\ activeLeaf' \in FocusAfterDetach(activeLeaf, {l}, attached \ {l})
    /\ IF activeLeaf' # activeLeaf
       THEN /\ Notify(activeLeaf', managedLeaves)
            /\ Notified("close", Accepted(activeLeaf', managedLeaves))
       ELSE /\ UNCHANGED <<updateTimeout, timers, burst>>
            /\ Called("", "")
    /\ UNCHANGED <<input, output, watch, echo,
                   loaded, layoutReady, settings, saving, managedLeaves,
                   isUpdating, currentBaselinks, passes, activeFile,
                   frontmatter, inputs>>

Next ==
    \/ LayoutReady
    \/ \E h \in timers : TimerFires(h)
    \/ \E k \in 1..Len(passes) : OpenFileResolves(k)
    \/ \E k \in 1..Len(passes) : OpenFileRejects(k)
    \/ onunload
    \/ saveSettings
    \/ \E l \in attached, f \in Files \cup {NoFile} : ActiveLeafChange(l, f)
    \/ \E f \in Files \cup {NoFile} : FileOpen(f)
    \/ \E v \in Frontmatters : MetadataChanged(v)
    \/ \E d \in DefaultLists : DefaultBaselinksEdited(d)
    \/ \E l \in attached \ UserLeaves : CloseLeaf(l)

\* The plugin with the calls of updateBaselinks and onunload observed, with
\* its notifications observed, with the bursts of notifications observed,
\* with the changes of its inputs observed, and with the list of the last
\* successful pass observed.
Spec == Init /\ [][Next]_vars
SpecNotify == InitNotify /\ [][Next]_vars
SpecBurst == InitBurst /\ [][Next]_vars
SpecInputs == InitInputs /\ [][Next]_vars
SpecSnapshot == InitSnapshot /\ [][Next]_vars

\* A step in which the pending timer expires: the steps of TimerFires are
\* the steps of Next that leave no timer pending where one was.
TimerExpires == timers # {} /\ timers' = {}

\* A step in which the openFile call of the suspended pass resolves or
\* rejects: the steps of OpenFileResolves and OpenFileRejects are the steps
\* of Next that end the pass or take it to the openFile of a later entry.
OpenFileSettles ==
    /\ passes # <<>>
    /\ \/ passes' = <<>>
       \/ passes' # <<>> /\ passes'[1].i > passes[1].i

\* A step in which the host hands the waiting events to the plugin: the
\* steps of DeliverEcho.
EchoDelivered == loaded /\ echo = "pending" /\ echo' = "delivered"

\* The plugin with its inputs observed, in a host that calls the handlers
\* of the events the plugin causes after the plugin's call has returned,
\* whose timers expire and whose openFile calls settle: a timeout that stays
\* pending runs its callback, the promise of openFile resolves or rejects,
\* and events that wait are delivered.
Fairness ==
    /\ WF_timers(TimerExpires)
    /\ WF_passes(OpenFileSettles)
    /\ WF_echo(EchoDelivered)

\* The state after onload in a host that delivers the plugin's own events
\* later: none waits yet.
InitEcho == InitPlugin /\ echo = "none" /\ watch = "inputs"

\* The host calls the handlers for the events the plugin's pane changes
\* caused: scheduleUpdate (lines 382-386).
DeliverEcho ==
    /\ loaded
    /\ echo = "pending"
    /\ echo' = "delivered"
    /\ Notify(activeLeaf, managedLeaves)
    /\ Notified("notify", Accepted(activeLeaf, managedLeaves))
    /\ UNCHANGED <<input, output, watch,
                   loaded, layoutReady, settings, saving, managedLeaves,
                   isUpdating, currentBaselinks, passes, attached, activeLeaf,
                   activeFile, frontmatter, inputs>>

NextEcho == Next \/ DeliverEcho

SpecFair == InitEcho /\ [][NextEcho]_vars /\ Fairness

(***************************************************************************)
(* getBaselinksFromFile and the parsing of an entry, applied on their own  *)
(* to every document and entry of a bounded set.                           *)
(***************************************************************************)
Alphabet == {"a", "#", "v"}

\* The strings over Alphabet of length n or less.
RECURSIVE Strings(_)
Strings(n) ==
    IF n = 0 THEN {<<>>}
    ELSE LET shorter == Strings(n - 1)
         IN  shorter \cup {Append(s, c) : s \in {x \in shorter : Len(x) = n - 1},
                                          c \in Alphabet}

\* "[[" interior "]]"
Bracket(interior) == <<"[", "[">> \o interior \o <<"]", "]">>

\* The entries parsed: every link with an interior of MaxInterior characters
\* or less, and strings the pattern does not match.
Entries ==
    {Bracket(s) : s \in Strings(MaxInterior)} \cup {LinkBad, <<>>, <<"a">>}

\* The sequences of n or fewer elements of E.
RECURSIVE SeqsUpTo(_, _)
SeqsUpTo(E, n) ==
    IF n = 0 THEN {<<>>}
    ELSE LET shorter == SeqsUpTo(E, n - 1)
         IN  shorter \cup {Append(s, e) : s \in {x \in shorter : Len(x) = n - 1},
                                          e \in E}

\* The values a frontmatter property takes: absent, numbers, an object,
\* strings (the empty one among them) and sequences of mixed elements.
Elements == {Str(LinkB), Str(LinkAV), Str(<<>>), Num(7), Num(0), Undefined, Obj}
Values ==
    {Undefined, Num(0), Num(7), Obj}
       \cup {Str(s) : s \in Strings(MaxInterior) \cup {LinkAV, LinkB, LinkBad}}
       \cup {Arr(e) : e \in SeqsUpTo(Elements, MaxElems)}

\* The documents read: without frontmatter, with the configured property,
\* and with another property only.
Documents ==
    {NoFrontmatter} \cup {FM(v, Undefined) : v \in Values}
                    \cup {FM(Undefined, v) : v \in {Str(LinkB), Arr(<<Str(LinkB)>>)}}

InitPure ==
    /\ loaded = FALSE
    /\ layoutReady = TRUE
    /\ settings = [baselinkPropertyName |-> "baselinks", defaultBaselinks |-> <<>>]
    /\ saving = 0
    /\ managedLeaves = <<>>
    /\ updateTimeout = NoTimer
    /\ isUpdating = FALSE
    /\ currentBaselinks = <<>>
    /\ timers = {}
    /\ passes = <<>>
    /\ attached = UserLeaves
    /\ activeLeaf = NoLeaf
    /\ activeFile = NoFile
    /\ frontmatter = NoFrontmatter
    /\ echo = "sync"
    /\ watch = "pure"
    /\ last = Quiet
    /\ burst = 0
    /\ inputs = "changed"
    /\ lastRendered = <<>>
    /\ input \in {Input("getBaselinksFromFile", d, <<>>) : d \in Documents}
                    \cup {Input("parse", NoFrontmatter, e) : e \in Entries}
    /\ output = NoOutput

\* getBaselinksFromFile(file) for a file with the frontmatter input.fm.
ReadFrontmatter ==
    /\ input.fn = "getBaselinksFromFile" /\ ~output.done
    /\ output' = Output(getBaselinksFromFile(input.fm,
                                             settings.baselinkPropertyName),
                        FALSE, <<>>, FALSE, <<>>)
    /\ UNCHANGED <<input, watch, loaded, layoutReady, settings, saving,
                   managedLeaves, updateTimeout, isUpdating, currentBaselinks,
                   timers, passes, attached, activeLeaf, activeFile,
                   frontmatter, echo, last, burst, inputs, lastRendered>>

\* Lines 485-530 for the entry input.link: the path handed to
\* getFirstLinkpathDest and the view name put into the open state.
ParseLink ==
    /\ input.fn = "parse" /\ ~output.done
    /\ output' = IF linkMatch(input.link) = 0
                 THEN Output(<<>>, FALSE, <<>>, FALSE, <<>>)
                 ELSE Output(<<>>, TRUE, filePath(input.link),
                             HasSubpath(input.link), subpath(input.link))
    /\ UNCHANGED <<input, watch, loaded, layoutReady, settings, saving,
                   managedLeaves, updateTimeout, isUpdating, currentBaselinks,
                   timers, passes, attached, activeLeaf, activeFile,
                   frontmatter, echo, last, burst, inputs, lastRendered>>

NextPure == ReadFrontmatter \/ ParseLink

SpecPure == InitPure /\ [][NextPure]_vars

(***************************************************************************)
(* Properties.                                                             *)
(***************************************************************************)
InFlight == passes # <<>>

\* A step that invokes updateBaselinks: a timer expires or the layout-ready
\* callback runs.
Invocation == last'.op \in {"timer", "layoutReady"}

\* C1: at most one reconciliation pass is in flight at any time, and an
\* invocation of updateBaselinks made while a pass is suspended at openFile
\* returns at once: it leaves the snapshot, the managed set, the pane tree
\* and the focus alone, and leaves the busy flag and the suspended pass as
\* they are.
C1_SinglePass ==
    /\ [](Len(passes) <= 1)
    /\ [][(InFlight /\ Invocation) =>
            UNCHANGED <<currentBaselinks, managedLeaves, attached, activeLeaf,
                        isUpdating, passes>>]_vars

\* A timer expired while a pass was suspended, and its call was turned away.
C1_Witness == last = Did("timer", "rejected") /\ Len(passes) = 1 /\ isUpdating

\* C2: at most one timer is pending at any time; after a burst of k >= 1
\* accepted notifications with no expiry in between, exactly one timer is
\* pending, the one the last notification started, so the burst leads to
\* one invocation; once it has expired no timer is left.
C2_Debounce ==
    /\ Cardinality(timers) <= 1
    /\ burst = 0 => timers = {} /\ updateTimeout = NoTimer
    /\ burst >= 1 => updateTimeout # NoTimer /\ timers = {updateTimeout}

\* A burst of two or more notifications with one timer pending.
C2_Witness == burst >= 2 /\ Cardinality(timers) = 1

\* A step that delivers a notification to scheduleUpdate: the user moved
\* the focus, the metadata cache changed, or the settings were saved.
Notification == last'.op = "notify"

\* A step that detaches the focused pane, so that the focus moves.
DetachNotification == last'.op \in {"close", "onunload"}

ActiveIsManaged == activeLeaf # NoLeaf /\ activeLeaf \in Range(managedLeaves)

\* C3: a notification that arrives while the active pane is a managed pane
\* or while a pass is in flight is ignored: no timer is created, a pending
\* timer is left untouched, no pass is started and nothing else of the
\* plugin's state changes.
C3_Ignored ==
    [][/\ (Notification /\ (ActiveIsManaged' \/ InFlight)) =>
            UNCHANGED <<timers, updateTimeout, passes, isUpdating,
                        managedLeaves, currentBaselinks, attached, settings>>
       /\ (DetachNotification /\ InFlight) =>
            UNCHANGED <<timers, updateTimeout, passes, isUpdating,
                        currentBaselinks, settings>>]_vars

\* A notification with a pane of the user focused was dropped during a pass,
\* and the timer that was pending is still pending.
C3_Witness ==
    /\ last = Did("notify", "ignored")
    /\ InFlight /\ ~ActiveIsManaged
    /\ timers # {}

\* A step that invokes updateBaselinks, told by what it consumes: a pending
\* timer, or the layout-ready callback.
Invoked ==
    \/ layoutReady' # layoutReady
    \/ timers' # timers /\ timers' \subseteq timers

\* C4: an invocation of updateBaselinks made when an earlier pass has read
\* the inputs (active document, its frontmatter, the settings) and none of
\* them changed since changes nothing: the managed set and the snapshot stay
\* as they are, no pane is created or detached, no document is opened and
\* the focus stays.
C4_Idempotent ==
    [][(Invoked /\ inputs # "changed") =>
            UNCHANGED <<managedLeaves, currentBaselinks, attached, passes,
                        activeLeaf, isUpdating>>]_vars

\* A pass rendered panes and ended, and a further invocation read the same
\* inputs again.
C4_Witness ==
    /\ inputs = "reread"
    /\ managedLeaves # <<>> /\ ~InFlight

\* An entry the loop renders: it matches the link pattern and its path
\* resolves to a file.
Valid(link) == linkMatch(link) # 0 /\ Resolves(link)

LogIdx(log) == {log[j].idx : j \in 1..Len(log)}

\* C5: an entry that does not match the link pattern or does not resolve,
\* or for which no pane can be had, is skipped at every position of the
\* list: the pass raises no error, and when it completes exactly the valid
\* entries that got a pane have a pane, the later ones included.
C5_SkipAndContinue ==
    [][/\ last'.outcome # "threw"
       /\ last' = Did("openFile", "completed") =>
            \A k \in 1..Len(passes) :
               passes' = Without(passes, k) =>
                  \A i \in 1..passes[k].i :
                     (Valid(passes[k].baselinks[i]) /\ i \notin passes[k].nopane)
                        <=> i \in LogIdx(passes[k].log)]_vars

\* The ways a pass ends.
PassEnds == {"unchanged", "empty", "completed", "threw", "openfail"}

AllValid(list) == \A i \in 1..Len(list) : Valid(list[i])

\* What the pass did for its j-th pane agrees with the j-th entry of list.
Rendered(log, list, j) ==
    /\ log[j].idx = j
    /\ log[j].file = filePath(list[j])
    /\ log[j].hasView = HasSubpath(list[j])
    /\ log[j].hasView => log[j].viewName = subpath(list[j])
    /\ IF j = 1 THEN log[j].how = "sidebar"
       ELSE log[j].how = "split" /\ log[j].from = log[j - 1].leaf
    /\ j < Len(log) => log[j].opened
    /\ j > 1 => ~log[j].revealed
    /\ (j = 1 /\ Len(log) > 1) => log[j].revealed

\* The pass p completes with this step, holding the managed set of its
\* panes in the order of its list, each rendered as its entry says.
OnePanePerEntry(p) ==
    /\ managedLeaves' = [j \in 1..Len(p.log) |-> p.log[j].leaf]
    /\ Cardinality(Range(managedLeaves')) = Len(p.baselinks)
    /\ \A j \in 1..Len(p.log) : Rendered(p.log, p.baselinks, j)

\* C7 as stated: when a pass over a list of n >= 1 valid entries that each
\* got a pane completes, the managed set is those n panes in the order of
\* the list, the first was asked of the right sidebar and each later one
\* was split from the pane before it, each was opened with the file and
\* view of its entry, and only the first was revealed.
C7_OnePanePerEntry ==
    [][last' = Did("openFile", "completed") =>
         \A k \in 1..Len(passes) :
            (/\ passes' = Without(passes, k)
             /\ AllValid(passes[k].baselinks)
             /\ Len(passes[k].log) = Len(passes[k].baselinks)) =>
               OnePanePerEntry(passes[k])]_vars

\* C7, amended: the same, for a pass none of whose panes was detached (by
\* the user closing it, or by onunload) before the pass completes.
C7_UndisturbedPass ==
    [][last' = Did("openFile", "completed") =>
         \A k \in 1..Len(passes) :
            (/\ passes' = Without(passes, k)
             /\ AllValid(passes[k].baselinks)
             /\ Len(passes[k].log) = Len(passes[k].baselinks)
             /\ LogLeaves(passes[k].log) \subseteq attached) =>
               OnePanePerEntry(passes[k])]_vars

\* A pass over two valid entries completed with two panes in the pane tree.
C7_Witness ==
    /\ last = Did("openFile", "completed")
    /\ Len(currentBaselinks) = 2 /\ AllValid(currentBaselinks)
    /\ Len(managedLeaves) = 2
    /\ Range(managedLeaves) \subseteq attached

\* C8: when a pass runs to its end with an empty derived list (no entries
\* from the active document and an empty default list), every pane that was
\* in the managed set is detached and the managed set is empty.
C8_EmptyClears ==
    /\ [](currentBaselinks = <<>> => managedLeaves = <<>>)
    /\ [][(last'.outcome \in {"empty", "unchanged"} /\ Derived = <<>>) =>
            /\ managedLeaves' = <<>>
            /\ Range(managedLeaves) \cap attached' = {}]_vars

\* A pass over an empty list detached panes and left the managed set empty.
C8_Witness ==
    /\ last.outcome = "empty" /\ last.detached >= 1
    /\ managedLeaves = <<>>

\* The pane that was focused when the pass that ends with this step began.
OriginalOf(k) ==
    IF last'.op = "openFile" THEN passes[k].originalActiveLeaf ELSE activeLeaf

\* C9: the panes of the user are never in the managed set, and when a pass
\* completes and the pane that was focused when it began is one of them and
\* still in the pane tree, that pane is focused.
C9_FocusRestored ==
    /\ [](Range(managedLeaves) \cap UserLeaves = {})
    /\ [][last'.outcome \in {"completed", "empty", "unchanged"} =>
            \A k \in 1..(IF last'.op = "openFile" THEN Len(passes) ELSE 1) :
               (/\ last'.op = "openFile" => passes' = Without(passes, k)
                /\ OriginalOf(k) \in UserLeaves \cap attached') =>
                  activeLeaf' = OriginalOf(k)]_vars

\* A pass that rendered panes completed, and a pane of the user is focused.
C9_Witness ==
    /\ last = Did("openFile", "completed")
    /\ managedLeaves # <<>>
    /\ activeLeaf \in UserLeaves

\* C10: when the plugin is deactivated, every pane of the managed set is
\* detached and the managed set is empty.
C10_Teardown ==
    [][(loaded /\ ~loaded') =>
            /\ managedLeaves' = <<>>
            /\ Range(managedLeaves) \cap attached' = {}]_vars

\* The plugin was deactivated with panes in the managed set.
C10_Witness ==
    /\ last.op = "onunload" /\ last.detached >= 1
    /\ ~loaded /\ managedLeaves = <<>>

\* getBaselinksFromFile has returned for a document that has frontmatter.
HasRead == output.done /\ input.fn = "getBaselinksFromFile" /\ input.fm.has

\* The value of the configured property of the document read.
Property == input.fm.props[settings.baselinkPropertyName]

\* C11: for a document whose configured property holds a single string,
\* whatever its content or length, getBaselinksFromFile returns the list of
\* that one string.
C11_SingleString ==
    (HasRead /\ Property.kind = "string") => output.list = <<Property.s>>

IsString(v) == v.kind = "string"

\* The string-typed elements of e, in their order.
StringsOf(e) ==
    LET kept == SelectSeq(e, IsString)
    IN  [i \in 1..Len(kept) |-> kept[i].s]

\* C12: for a document whose configured property holds a sequence,
\* getBaselinksFromFile returns the subsequence of its string-typed elements
\* in their order, duplicates kept and the other elements dropped; it
\* returns the empty list when the document has no frontmatter, or the
\* property is absent or is neither a string nor a sequence.
C12_MixedSequence ==
    /\ (HasRead /\ Property.kind = "array") =>
          output.list = StringsOf(Property.elems)
    /\ (output.done /\ input.fn = "getBaselinksFromFile"
          /\ (~input.fm.has \/ Property.kind \notin {"string", "array"})) =>
          output.list = <<>>

\* A sequence with a number between two equal strings was read.
C12_Witness ==
    /\ HasRead
    /\ Property = Arr(<<Str(LinkB), Num(7), Str(LinkB)>>)
    /\ output.list = <<LinkB, LinkB>>

\* C13: a timer is never pending while a pass is in flight, and no call of
\* updateBaselinks made by an expiring timer is turned away by the busy
\* flag.
C13_TimerThenPass ==
    /\ ~(timers # {} /\ InFlight)
    /\ last # Did("timer", "rejected")

\* C14: whenever no pass is in flight, the snapshot is the list of the most
\* recent pass that ran to its end without an error (the empty list before
\* any has); a pass that ends with an error leaves the snapshot as it was.
C14_SnapshotOfSuccess == ~InFlight => currentBaselinks = lastRendered

\* C15: once the plugin is deactivated, in every continuation the managed
\* set is empty and no pane the plugin created is in the pane tree.
C15_CleanAfterUnload ==
    ~loaded => (managedLeaves = <<>> /\ attached \subseteq UserLeaves)

\* C16: a pass that completes leaves the focus on a pane of the pane tree
\* (or on none): it never focuses a pane that was detached, as the pane
\* focused at its start is when that pane was in the previous managed set.
C16_FocusOnExistingPane ==
    [][last'.outcome = "completed" =>
          (activeLeaf' = NoLeaf \/ activeLeaf' \in attached')]_vars

\* The panes of the pane tree that the plugin acquired.
Acquired == attached \ UserLeaves

\* C17: every pane the plugin acquired that is still in the pane tree is in
\* the managed set, a pane whose openFile failed included; after a step in
\* which a pass changes the list the only such panes are those of that pass,
\* and after onunload there is none.
C17_NoPaneLeaks ==
    /\ [](Acquired \subseteq Range(managedLeaves))
    /\ [][/\ currentBaselinks' # currentBaselinks =>
               Acquired' \subseteq (IF passes' = <<>> THEN {}
                                    ELSE LogLeaves(passes'[1].log))
          /\ (loaded /\ ~loaded') => Acquired' = {}]_vars

\* A pane whose openFile failed is in the pane tree and in the managed set.
C17_Witness ==
    /\ last = Did("openFile", "openfail")
    /\ managedLeaves # <<>>
    /\ Range(managedLeaves) \subseteq attached

\* C18: when a timer is pending with no pass in flight and inputs that no
\* pass has read yet, then eventually a pass has read the inputs and the
\* snapshot is the list derived from the active document (the defaults when
\* that list is empty).
C18_NoLostUpdate ==
    (timers # {} /\ ~InFlight /\ inputs = "changed")
        ~> (inputs # "changed" /\ currentBaselinks = Derived)

\* The timer has expired, a pass has read the inputs and rendered panes for
\* the list derived from them.
C18_Witness ==
    /\ inputs = "read" /\ timers = {} /\ layoutReady
    /\ currentBaselinks = Derived /\ managedLeaves # <<>>

\* A step of the plugin itself: a timer expires, an openFile call settles,
\* the layout-ready callback or the rest of saveSettings runs, or the events
\* the plugin caused are delivered. Every other step is one of the user or
\* of the host: the focus, the active document, its frontmatter or the
\* settings change, a pane is closed, the plugin is deactivated.
PluginStep ==
    \/ TimerExpires
    \/ OpenFileSettles
    \/ layoutReady' # layoutReady
    \/ saving' < saving
    \/ EchoDelivered

\* No timer is pending, no pass is running, no event of the plugin's own
\* making waits to be delivered.
Idle == timers = {} /\ ~isUpdating /\ (loaded => echo # "pending")

\* C19: the delivery of the events the plugin's own pane changes caused
\* changes no pane, and once the user and the host stop acting (so that the
\* active document, its frontmatter and the settings stay as they are) the
\* plugin's own steps come to an end: from some point on the plugin is idle
\* for good.
C19_NoFeedbackLoop ==
    /\ [][EchoDelivered =>
             UNCHANGED <<managedLeaves, attached, passes, currentBaselinks,
                         isUpdating, activeLeaf>>]_vars
    /\ (<>[][PluginStep]_vars) => <>[]Idle

\* The events caused by a pass that rendered panes were delivered, the pass
\* they led to read the same inputs, and the plugin is idle.
C19_Witness ==
    /\ echo = "delivered" /\ inputs = "reread"
    /\ managedLeaves # <<>> /\ Idle /\ loaded

\* C20: for an entry that matches the link grammar, the path handed to the
\* resolution is the captured interior up to its first "#" (all of it when
\* it has none), and the view name handed to openFile is all that follows
\* the first "#", further "#" included; no view name is passed when the
\* interior has no "#" or nothing follows it.
C20_SplitOnFirstHash ==
    (output.done /\ input.fn = "parse" /\ output.matched) =>
        LET interior == linkPath(input.link)
            k        == IndexFrom(interior, 1, "#")
            rest     == IF k = 0 THEN <<>>
                        ELSE SubSeq(interior, k + 1, Len(interior))
        IN  /\ output.filePath = IF k = 0 THEN interior
                                 ELSE SubSeq(interior, 1, k - 1)
            /\ output.hasView = (rest # <<>>)
            /\ output.hasView => output.viewName = rest

=============================================================================
